---- MODULE Spec2Model ----
(***************************************************************************)
(* State-machine model of server.js: the Express handlers for signup,      *)
(* login and the post routes over the two Mongoose collections (User,      *)
(* Post), with the JWT middleware.  Every handler is cut at its awaited     *)
(* store operations: one action per store operation, so that concurrent    *)
(* requests interleave exactly where the event loop lets them.             *)
(***************************************************************************)
EXTENDS Integers, Sequences, FiniteSets, TLC

VARIABLES
  users,      \* the User collection: sequence of documents, _id = position
  plain,      \* history: plain[i] = plaintext password of the signup that created users[i]
  posts,      \* the Post collection: function from _id to document
  nextPostId, \* the next ObjectId the driver hands to a new Post
  tokens,     \* every token a login has issued, with the Date.now() of its issue
  clock,      \* Date.now(), in milliseconds
  req,        \* per connection: the handler suspended at an await, or idle
  res,        \* the response sent last, with the request it answers; list is
              \* the JSON array of GET /posts, keyed by _id
  okReact     \* history: per post id, the like/dislike requests answered 200

vars == <<users, plain, posts, nextPostId, tokens, clock, req, res, okReact>>

----------------------------------------------------------------------------
(* Bounds of the model *)

MaxPosts == 2        \* posts ever created
MaxCount == 2        \* cap on a likes/dislikes counter
MaxTokens == 2       \* tokens issued

(* Program constants *)

BcryptMaxBytes == 72 \* bcrypt reads only the first 72 bytes of the password
SaltRounds == 10     \* bcrypt.hash(password, 10)
ExpiresInSec == 3600 \* jwt.sign(..., { expiresIn: '1h' })
MsPerSec == 1000     \* Math.floor(Date.now() / 1000) inside jsonwebtoken
BadId == 0           \* a :id that is no ObjectId (findById throws CastError)

(* Inputs *)

Conn == {"c1", "c2"}                       \* concurrent connections
Usernames == {"", "alice", "bob"}          \* "" is the empty or absent field
Pad == [i \in 1..BcryptMaxBytes |-> "x"]   \* 72 bytes
PwA == Pad \o <<"a">>                      \* two 73-byte passwords that differ
PwB == Pad \o <<"b">>                      \* in their last byte only
Passwords == {<<>>, <<"p">>, PwA, PwB}     \* <<>> is the empty or absent field
PostIds == 0..MaxPosts                     \* BadId and the ObjectIds handed out
Reactions == {"like", "dislike"}
Instants == {0, 600, 1200, 3600200, 3600800}  \* Date.now() when something happens
Secret == "JWT_SECRET"

----------------------------------------------------------------------------
(* Values *)

NoToken == [userId |-> 0, username |-> "", iat |-> 0, exp |-> 0, sig |-> "none"]
Garbage == [userId |-> 0, username |-> "", iat |-> 0, exp |-> 0, sig |-> "malformed"]
NoDoc == [title |-> "", content |-> "", user |-> 0, likes |-> 0, dislikes |-> 0]

\* A request: method+route as op, the body fields, the Authorization header
\* (the list of its space-separated words; <<>> when absent) and :id.
Request(op, username, password, hdr, id, title, content) ==
  [op |-> op, username |-> username, password |-> password, hdr |-> hdr,
   id |-> id, title |-> title, content |-> content]
NoReq == Request("none", "", <<>>, <<>>, 0, "", "")

Idle == [pc |-> "idle", a |-> NoReq, doc |-> NoDoc]

----------------------------------------------------------------------------
(* bcrypt *)

Min(a, b) == IF a < b THEN a ELSE b

\* The key bcrypt derives the digest from: the first 72 bytes of the password.
BcryptKey(password) == SubSeq(password, 1, Min(Len(password), BcryptMaxBytes))

\* bcrypt.hash(password, 10).  The salt travels inside the hash and compare
\* re-derives with it, so the hash is modelled by what compare can tell apart.
BcryptHash(password) ==
  [alg |-> "bcrypt", rounds |-> SaltRounds, key |-> BcryptKey(password)]

\* (mutant) compares the password itself with the digest's key
CompareUntruncated(password, hash) == password = hash.key

\* bcrypt.compare(password, hash)
BcryptCompare(password, hash) == BcryptHash(password) = hash

----------------------------------------------------------------------------
(* jsonwebtoken *)

NowSec == clock \div MsPerSec

\* jwt.sign({userId, username}, JWT_SECRET, {expiresIn: '1h'})
JwtSign(user) ==
  [userId |-> user._id, username |-> user.username,
   iat |-> NowSec, exp |-> NowSec + ExpiresInSec, sig |-> Secret]

\* (mutant) verify with ignoreExpiration
JwtVerifyNoExpiry(token) ==
  IF token.sig = "malformed" THEN "JsonWebTokenError"
  ELSE IF token.sig # Secret THEN "JsonWebTokenError"
  ELSE "ok"

\* (mutant) expiry tested with > instead of >=
JwtVerifyLate(token) ==
  IF token.sig = "malformed" THEN "JsonWebTokenError"
  ELSE IF token.sig # Secret THEN "JsonWebTokenError"
  ELSE IF NowSec > token.exp THEN "TokenExpiredError"
  ELSE "ok"

\* jwt.verify(token, JWT_SECRET, cb): the error handed to cb, or "ok"
JwtVerify(token) ==
  IF token.sig = "malformed" THEN "JsonWebTokenError"
  ELSE IF token.sig # Secret THEN "JsonWebTokenError"
  ELSE IF NowSec >= token.exp THEN "TokenExpiredError"
  ELSE "ok"

\* authHeader && authHeader.split(' ')[1]
TokenOf(hdr) == IF Len(hdr) >= 2 THEN hdr[2] ELSE NoToken

\* (mutant) the token is decoded but not verified
AuthStatusUnverified(hdr) == IF TokenOf(hdr) = NoToken THEN 401 ELSE 0

\* authenticateToken: the status it answers itself, or 0 when it calls next()
AuthStatus(hdr) ==
  IF TokenOf(hdr) = NoToken THEN 401
  ELSE IF JwtVerify(TokenOf(hdr)) # "ok" THEN 403
  ELSE 0

\* The headers a client can send: none, the scheme alone, or the scheme with
\* an issued token, a re-signed copy of one, or something that is no JWT.
Forged(t) == [t EXCEPT !.sig = "attacker"]
Jwts == {e.jwt : e \in tokens}
Issued == {<<"Bearer", t>> : t \in Jwts}
Headers ==
  {<<>>, <<"Bearer">>, <<"Bearer", Garbage>>}
    \cup Issued \cup {<<"Bearer", Forged(t)>> : t \in Jwts}

----------------------------------------------------------------------------
(* The collections *)

\* User.findOne({ username }): the matching documents (the first is returned)
FindUsers(username) == {i \in 1..Len(users) : users[i].username = username}
FindOne(username) == users[CHOOSE i \in FindUsers(username) : \A j \in FindUsers(username) : i <= j]

\* (mutant) the schema without unique: true
NoUniqueIndex(username) == FALSE

\* username: { unique: true }: the unique index refuses a second document
DuplicateKey(username) == FindUsers(username) # {}

\* title, content: { required: true }: the validator refuses an empty string
ValidPost(title, content) == title # "" /\ content # ""

\* Post.findById(id) finds a document
Exists(id) == id \in DOMAIN posts

----------------------------------------------------------------------------
(* Responses *)

Reply(c, a, status, body, token) ==
  /\ res' = [a |-> a, status |-> status, body |-> body, token |-> token, list |-> <<>>]
  /\ req' = [req EXCEPT ![c] = Idle]

\* authenticateToken answers itself: res.sendStatus(401 | 403)
\* (mutant) sendStatus without return: the middleware answers and calls next()
RejectAndNext(c, a) ==
  /\ res' = [a |-> a, status |-> AuthStatus(a.hdr),
             body |-> IF AuthStatus(a.hdr) = 401 THEN "Unauthorized" ELSE "Forbidden",
             token |-> NoToken, list |-> <<>>]
  /\ req' = [req EXCEPT ![c] = [pc |-> IF a.op = "delete" THEN "delete.remove"
                                       ELSE "update.save",
                                a |-> a, doc |-> NoDoc]]

Reject(c, a) ==
  Reply(c, a, AuthStatus(a.hdr),
        IF AuthStatus(a.hdr) = 401 THEN "Unauthorized" ELSE "Forbidden", NoToken)

\* the catch block: res.status(500).send(error.message)
Throw(c, a, error) == Reply(c, a, 500, error, NoToken)

\* the handler suspends at its next await
Await(c, a, pc, doc) ==
  /\ req' = [req EXCEPT ![c] = [pc |-> pc, a |-> a, doc |-> doc]]
  /\ UNCHANGED res

----------------------------------------------------------------------------
(* POST /signup *)

\* (mutant) no lookup before the insert
SignupFindNoLookup(c, a, fail) ==
  IF a.username = "" \/ a.password = <<>>
    THEN Reply(c, a, 400, "Username and password are required", NoToken)
  ELSE IF fail THEN Throw(c, a, "StoreError")
  ELSE Await(c, a, "signup.save", NoDoc)

SignupFind(c, a, fail) ==
  IF a.username = "" \/ a.password = <<>>
    THEN Reply(c, a, 400, "Username and password are required", NoToken)
  ELSE IF fail THEN Throw(c, a, "StoreError")
  ELSE IF FindUsers(a.username) # {}
    THEN Reply(c, a, 409, "Username already exists", NoToken)
  ELSE Await(c, a, "signup.save", NoDoc)

Signup(c, U, P, F) ==
  /\ req[c].pc = "idle"
  /\ \E u \in U, p \in P, fail \in F :
       SignupFind(c, Request("signup", u, p, <<>>, 0, "", ""), fail)
  /\ UNCHANGED <<users, plain, posts, nextPostId, tokens, clock, okReact>>

SignupInsert(c, a, fail) ==
  IF fail THEN Throw(c, a, "StoreError") /\ UNCHANGED <<users, plain>>
  ELSE IF DuplicateKey(a.username)
    THEN Throw(c, a, "E11000 duplicate key") /\ UNCHANGED <<users, plain>>
  ELSE /\ users' = Append(users, [_id |-> Len(users) + 1, username |-> a.username,
                                  password |-> BcryptHash(a.password)])
       /\ plain' = Append(plain, a.password)
       /\ Reply(c, a, 201, "User created successfully", NoToken)

SignupSave(c, F) ==
  /\ req[c].pc = "signup.save"
  /\ \E fail \in F : SignupInsert(c, req[c].a, fail)
  /\ UNCHANGED <<posts, nextPostId, tokens, clock, okReact>>

----------------------------------------------------------------------------
(* POST /login.  Its only store operation is findOne; bcrypt.compare and   *)
(* jwt.sign that follow read nothing but the loaded document and the clock.*)

\* (mutant) the user is looked up before the fields are checked
LoginFindLookupFirst(c, a, fail) ==
  IF fail THEN Throw(c, a, "StoreError") /\ UNCHANGED tokens
  ELSE IF FindUsers(a.username) = {}
    THEN Reply(c, a, 404, "User not found", NoToken) /\ UNCHANGED tokens
  ELSE IF a.username = "" \/ a.password = <<>>
    THEN Reply(c, a, 400, "Username and password are required", NoToken) /\ UNCHANGED tokens
  ELSE IF ~BcryptCompare(a.password, FindOne(a.username).password)
    THEN Reply(c, a, 401, "Invalid password", NoToken) /\ UNCHANGED tokens
  ELSE LET token == JwtSign(FindOne(a.username))
           issue == [jwt |-> token, at |-> clock] IN
       /\ issue \in tokens \/ Cardinality(tokens) < MaxTokens
       /\ tokens' = tokens \cup {issue}
       /\ Reply(c, a, 200, "token", token)

LoginFind(c, a, fail) ==
  IF a.username = "" \/ a.password = <<>>
    THEN Reply(c, a, 400, "Username and password are required", NoToken) /\ UNCHANGED tokens
  ELSE IF fail THEN Throw(c, a, "StoreError") /\ UNCHANGED tokens
  ELSE IF FindUsers(a.username) = {}
    THEN Reply(c, a, 404, "User not found", NoToken) /\ UNCHANGED tokens
  ELSE IF ~BcryptCompare(a.password, FindOne(a.username).password)
    THEN Reply(c, a, 401, "Invalid password", NoToken) /\ UNCHANGED tokens
  ELSE LET token == JwtSign(FindOne(a.username))
           issue == [jwt |-> token, at |-> clock] IN
       /\ issue \in tokens \/ Cardinality(tokens) < MaxTokens
       /\ tokens' = tokens \cup {issue}
       /\ Reply(c, a, 200, "token", token)

Login(c, U, P, F) ==
  /\ req[c].pc = "idle"
  /\ \E u \in U, p \in P, fail \in F :
       LoginFind(c, Request("login", u, p, <<>>, 0, "", ""), fail)
  /\ UNCHANGED <<users, plain, posts, nextPostId, clock, okReact>>

----------------------------------------------------------------------------
(* POST /posts *)

\* (mutant) the route registered without authenticateToken
CreateNoAuth(c, a, fail) ==
  IF ~ValidPost(a.title, a.content)
    THEN Throw(c, a, "ValidationError") /\ UNCHANGED <<posts, nextPostId>>
  ELSE IF fail THEN Throw(c, a, "StoreError") /\ UNCHANGED <<posts, nextPostId>>
  ELSE /\ nextPostId <= MaxPosts
       /\ posts' = posts @@ (nextPostId :>
                     [title |-> a.title, content |-> a.content,
                      user |-> TokenOf(a.hdr).userId, likes |-> 0, dislikes |-> 0])
       /\ nextPostId' = nextPostId + 1
       /\ Reply(c, a, 201, "Post created successfully", NoToken)

Create(c, a, fail) ==
  IF AuthStatus(a.hdr) # 0 THEN Reject(c, a) /\ UNCHANGED <<posts, nextPostId>>
  ELSE IF ~ValidPost(a.title, a.content)
    THEN Throw(c, a, "ValidationError") /\ UNCHANGED <<posts, nextPostId>>
  ELSE IF fail THEN Throw(c, a, "StoreError") /\ UNCHANGED <<posts, nextPostId>>
  ELSE /\ nextPostId <= MaxPosts
       /\ posts' = posts @@ (nextPostId :>
                     [title |-> a.title, content |-> a.content,
                      user |-> TokenOf(a.hdr).userId, likes |-> 0, dislikes |-> 0])
       /\ nextPostId' = nextPostId + 1
       /\ Reply(c, a, 201, "Post created successfully", NoToken)

CreatePost(c, H, T, F) ==
  /\ req[c].pc = "idle"
  /\ \E h \in H, t \in T, fail \in F :
       Create(c, Request("create", "", <<>>, h, 0, t, "c"), fail)
  /\ UNCHANGED <<users, plain, tokens, clock, okReact>>

----------------------------------------------------------------------------
(* DELETE /posts/:id *)

\* (mutant) the owner is not compared
GuardNoOwner(a) == IF ~Exists(a.id) THEN 404 ELSE 0

\* the guards PUT and DELETE share: the status they answer, or 0 to go on
GuardStatus(a) ==
  IF ~Exists(a.id) THEN 404
  ELSE IF posts[a.id].user # TokenOf(a.hdr).userId THEN 403
  ELSE 0

GuardReply(c, a) ==
  Reply(c, a, GuardStatus(a),
        IF GuardStatus(a) = 404 THEN "Post not found" ELSE "Unauthorized action", NoToken)

DeleteFind(c, a, fail) ==
  IF AuthStatus(a.hdr) # 0 THEN Reject(c, a)
  ELSE IF a.id = BadId THEN Throw(c, a, "CastError")
  ELSE IF fail THEN Throw(c, a, "StoreError")
  ELSE IF GuardStatus(a) # 0 THEN GuardReply(c, a)
  ELSE Await(c, a, "delete.remove", posts[a.id])

DeletePost(c, H, I, F) ==
  /\ req[c].pc = "idle"
  /\ \E h \in H, i \in I, fail \in F :
       DeleteFind(c, Request("delete", "", <<>>, h, i, "", ""), fail)
  /\ UNCHANGED <<users, plain, posts, nextPostId, tokens, clock, okReact>>

\* Post.findByIdAndDelete(postId): removes the document if it is still there
Remove(c, a, fail) ==
  IF fail THEN Throw(c, a, "StoreError") /\ UNCHANGED posts
  ELSE /\ posts' = [i \in DOMAIN posts \ {a.id} |-> posts[i]]
       /\ Reply(c, a, 200, "Post deleted successfully", NoToken)

DeleteRemove(c, F) ==
  /\ req[c].pc = "delete.remove"
  /\ \E fail \in F : Remove(c, req[c].a, fail)
  /\ UNCHANGED <<users, plain, nextPostId, tokens, clock, okReact>>

----------------------------------------------------------------------------
(* PUT /posts/:id *)

UpdateFind(c, a, fail) ==
  IF AuthStatus(a.hdr) # 0 THEN Reject(c, a)
  ELSE IF a.id = BadId THEN Throw(c, a, "CastError")
  ELSE IF fail THEN Throw(c, a, "StoreError")
  ELSE IF GuardStatus(a) # 0 THEN GuardReply(c, a)
  ELSE Await(c, a, "update.save", posts[a.id])

UpdatePost(c, H, I, T, F) ==
  /\ req[c].pc = "idle"
  /\ \E h \in H, i \in I, t \in T, fail \in F :
       UpdateFind(c, Request("update", "", <<>>, h, i, t, "c"), fail)
  /\ UNCHANGED <<users, plain, posts, nextPostId, tokens, clock, okReact>>

\* post.save() of a loaded document: validates, then $set of the paths whose
\* value was changed since loading; throws when the document is gone.
\* (mutant) save writes every field of the loaded document
SetPathsWhole(a, doc, cur) ==
  [doc EXCEPT !.title = a.title, !.content = a.content]

SetPaths(a, doc, cur) ==
  [cur EXCEPT !.title = IF a.title # doc.title THEN a.title ELSE @,
              !.content = IF a.content # doc.content THEN a.content ELSE @]

\* (mutant) the document is written before it is validated
UpdateWriteFirst(c, a, doc, fail) ==
  IF fail THEN Throw(c, a, "StoreError") /\ UNCHANGED posts
  ELSE IF ~Exists(a.id) THEN Throw(c, a, "DocumentNotFoundError") /\ UNCHANGED posts
  ELSE /\ posts' = [posts EXCEPT ![a.id] = SetPaths(a, doc, @)]
       /\ IF ~ValidPost(a.title, a.content) THEN Throw(c, a, "ValidationError")
          ELSE Reply(c, a, 200, "Post updated successfully", NoToken)

\* (mutant) save without the schema's validators
UpdateUnvalidated(c, a, doc, fail) ==
  IF fail THEN Throw(c, a, "StoreError") /\ UNCHANGED posts
  ELSE IF ~Exists(a.id) THEN Throw(c, a, "DocumentNotFoundError") /\ UNCHANGED posts
  ELSE /\ posts' = [posts EXCEPT ![a.id] = SetPaths(a, doc, @)]
       /\ Reply(c, a, 200, "Post updated successfully", NoToken)

Update(c, a, doc, fail) ==
  IF ~ValidPost(a.title, a.content)
    THEN Throw(c, a, "ValidationError") /\ UNCHANGED posts
  ELSE IF fail THEN Throw(c, a, "StoreError") /\ UNCHANGED posts
  ELSE IF ~Exists(a.id) THEN Throw(c, a, "DocumentNotFoundError") /\ UNCHANGED posts
  ELSE /\ posts' = [posts EXCEPT ![a.id] = SetPaths(a, doc, @)]
       /\ Reply(c, a, 200, "Post updated successfully", NoToken)

UpdateSave(c, F) ==
  /\ req[c].pc = "update.save"
  /\ \E fail \in F : Update(c, req[c].a, req[c].doc, fail)
  /\ UNCHANGED <<users, plain, nextPostId, tokens, clock, okReact>>

----------------------------------------------------------------------------
(* POST /posts/:id/like and /dislike *)

ReactFind(c, a, fail) ==
  IF a.id = BadId THEN Throw(c, a, "CastError")
  ELSE IF fail THEN Throw(c, a, "StoreError")
  ELSE IF ~Exists(a.id) THEN Reply(c, a, 404, "Post not found", NoToken)
  ELSE /\ posts[a.id].likes < MaxCount /\ posts[a.id].dislikes < MaxCount
       /\ Await(c, a, a.op \o ".save", posts[a.id])

React(c, O, I, F) ==
  /\ req[c].pc = "idle"
  /\ \E o \in O, i \in I, fail \in F :
       ReactFind(c, Request(o, "", <<>>, <<>>, i, "", ""), fail)
  /\ UNCHANGED <<users, plain, posts, nextPostId, tokens, clock, okReact>>

\* post.likes = (post.likes || 0) + 1, on the document as it was loaded
\* (mutant) save writes every field of the loaded document
IncrementedWholeDoc(a, doc, cur) ==
  IF a.op = "like" THEN [doc EXCEPT !.likes = doc.likes + 1]
  ELSE [doc EXCEPT !.dislikes = doc.dislikes + 1]

\* (mutant) the dislike handler, copied from the like handler, raises likes
IncrementedCopied(a, doc, cur) ==
  [cur EXCEPT !.likes = doc.likes + 1]

Incremented(a, doc, cur) ==
  IF a.op = "like" THEN [cur EXCEPT !.likes = doc.likes + 1]
  ELSE [cur EXCEPT !.dislikes = doc.dislikes + 1]

Counted(a, n) ==
  IF a.op = "like" THEN [n EXCEPT !.likes = @ + 1] ELSE [n EXCEPT !.dislikes = @ + 1]

\* (mutant) save inserts the loaded document when the store has none
ReactWriteUpsert(c, a, doc, fail) ==
  IF fail THEN Throw(c, a, "StoreError") /\ UNCHANGED <<posts, okReact>>
  ELSE /\ posts' = IF Exists(a.id) THEN [posts EXCEPT ![a.id] = Incremented(a, doc, @)]
                   ELSE posts @@ (a.id :> Incremented(a, doc, doc))
       /\ okReact' = [okReact EXCEPT ![a.id] = Counted(a, @)]
       /\ Reply(c, a, 200, IF a.op = "like" THEN "Like added successfully"
                           ELSE "Dislike added successfully", NoToken)

ReactWrite(c, a, doc, fail) ==
  IF fail THEN Throw(c, a, "StoreError") /\ UNCHANGED <<posts, okReact>>
  ELSE IF ~Exists(a.id)
    THEN Throw(c, a, "DocumentNotFoundError") /\ UNCHANGED <<posts, okReact>>
  ELSE /\ posts' = [posts EXCEPT ![a.id] = Incremented(a, doc, @)]
       /\ okReact' = [okReact EXCEPT ![a.id] = Counted(a, @)]
       /\ Reply(c, a, 200, IF a.op = "like" THEN "Like added successfully"
                           ELSE "Dislike added successfully", NoToken)

ReactSave(c, F) ==
  /\ req[c].pc \in {"like.save", "dislike.save"}
  /\ \E fail \in F : ReactWrite(c, req[c].a, req[c].doc, fail)
  /\ UNCHANGED <<users, plain, nextPostId, tokens, clock>>

----------------------------------------------------------------------------
(* GET /posts.  find() reads the Post collection; populate then reads the  *)
(* owners from the User collection, whose documents never change.          *)

\* (mutant) populate('user') without the field selection
PopulatedWhole(doc) ==
  [doc EXCEPT !.user = IF \E i \in 1..Len(users) : users[i]._id = doc.user
                       THEN users[doc.user]
                       ELSE [_id |-> 0, username |-> ""]]

\* .populate('user', 'username'): the owner's _id and username, or null
Populated(doc) ==
  [doc EXCEPT !.user = IF \E i \in 1..Len(users) : users[i]._id = doc.user
                       THEN [_id |-> doc.user, username |-> users[doc.user].username]
                       ELSE [_id |-> 0, username |-> ""]]

List(c, a, fail) ==
  IF fail THEN Throw(c, a, "StoreError")
  ELSE /\ res' = [a |-> a, status |-> 200, body |-> "json", token |-> NoToken,
                  list |-> [i \in DOMAIN posts |-> Populated(posts[i])]]
       /\ req' = [req EXCEPT ![c] = Idle]

ListPosts(c, F) ==
  /\ req[c].pc = "idle"
  /\ \E fail \in F : List(c, Request("list", "", <<>>, <<>>, 0, "", ""), fail)
  /\ UNCHANGED <<users, plain, posts, nextPostId, tokens, clock, okReact>>

----------------------------------------------------------------------------
(* Time passes *)

Tick ==
  /\ \E t \in Instants : t > clock /\ clock' = t
  /\ UNCHANGED <<users, plain, posts, nextPostId, tokens, req, res, okReact>>

----------------------------------------------------------------------------
(* Signup and login, concurrently, on an empty database *)

NoResponse == [a |-> NoReq, status |-> 0, body |-> "", token |-> NoToken, list |-> <<>>]

Init ==
  /\ users = <<>>
  /\ plain = <<>>
  /\ posts = <<>>
  /\ nextPostId = 1
  /\ tokens = {}
  /\ clock = 0
  /\ req = [c \in Conn |-> Idle]
  /\ res = NoResponse
  /\ okReact = [i \in 1..MaxPosts |-> [likes |-> 0, dislikes |-> 0]]

Next ==
  \/ \E c \in Conn : Signup(c, Usernames, {<<>>, <<"p">>, PwA}, BOOLEAN)
  \/ \E c \in Conn : SignupSave(c, BOOLEAN)
  \/ \E c \in Conn : Login(c, Usernames, Passwords, BOOLEAN)

Spec == Init /\ [][Next]_vars

----------------------------------------------------------------------------
(* The token check over time.  alice and bob have signed up (a state Spec   *)
(* reaches) and alice has a post; alice logs in at various instants and    *)
(* the tokens are presented on the protected routes while time passes.     *)

Registered ==
  /\ users = <<[_id |-> 1, username |-> "alice", password |-> BcryptHash(<<"p">>)],
               [_id |-> 2, username |-> "bob", password |-> BcryptHash(<<"p">>)]>>
  /\ plain = << <<"p">>, <<"p">> >>

InitToken ==
  /\ Registered
  /\ posts = (1 :> [title |-> "t", content |-> "c", user |-> 1, likes |-> 0, dislikes |-> 0])
  /\ nextPostId = 2
  /\ tokens = {}
  /\ clock = 0
  /\ req = [c \in Conn |-> Idle]
  /\ res = NoResponse
  /\ okReact = [i \in 1..MaxPosts |-> [likes |-> 0, dislikes |-> 0]]

NextToken ==
  \/ Login("c1", {"alice"}, {<<"p">>, PwA}, {FALSE})
  \/ CreatePost("c1", Headers, {"t"}, {FALSE})
  \/ UpdatePost("c1", Headers, {1}, {"u"}, {FALSE})
  \/ UpdateSave("c1", {FALSE})
  \/ DeletePost("c1", Headers, {1}, {FALSE})
  \/ DeleteRemove("c1", {FALSE})
  \/ Tick

SpecToken == InitToken /\ [][NextToken]_vars

----------------------------------------------------------------------------
(* The post routes, concurrently.  alice and bob have signed up and each    *)
(* has logged in at time 0 (a state Spec reaches).                         *)

JwtOf(i) == [userId |-> i, username |-> users[i].username,
             iat |-> 0, exp |-> ExpiresInSec, sig |-> Secret]

InitPosts ==
  /\ Registered
  /\ posts = <<>>
  /\ nextPostId = 1
  /\ tokens = {[jwt |-> JwtOf(i), at |-> 0] : i \in {1, 2}}
  /\ clock = 0
  /\ req = [c \in Conn |-> Idle]
  /\ res = NoResponse
  /\ okReact = [i \in 1..MaxPosts |-> [likes |-> 0, dislikes |-> 0]]

NextPosts ==
  \/ \E c \in Conn : CreatePost(c, Issued, {"t"}, {FALSE})
  \/ \E c \in Conn : UpdatePost(c, Issued, PostIds, {"", "u"}, {FALSE})
  \/ \E c \in Conn : UpdateSave(c, BOOLEAN)
  \/ \E c \in Conn : DeletePost(c, Issued, PostIds, {FALSE})
  \/ \E c \in Conn : DeleteRemove(c, BOOLEAN)

SpecPosts == InitPosts /\ [][NextPosts]_vars

----------------------------------------------------------------------------
(* Likes and dislikes, each request answered before the next one arrives   *)

Alone(c) == \A d \in Conn \ {c} : req[d].pc = "idle"

NextSeq ==
  \/ \E c \in Conn : Alone(c) /\ CreatePost(c, {<<"Bearer", JwtOf(1)>>}, {"t"}, {FALSE})
  \/ \E c \in Conn : Alone(c) /\ React(c, Reactions, PostIds, BOOLEAN)
  \/ \E c \in Conn : Alone(c) /\ ReactSave(c, BOOLEAN)

SpecSeq == InitPosts /\ [][NextSeq]_vars

----------------------------------------------------------------------------
(* Reactions, edits and deletion of one post, concurrently.  alice has     *)
(* logged in and created post 1 (a state SpecPosts reaches).               *)

InitReact ==
  /\ Registered
  /\ posts = (1 :> [title |-> "t", content |-> "c", user |-> 1, likes |-> 0, dislikes |-> 0])
  /\ nextPostId = 2
  /\ tokens = {[jwt |-> JwtOf(1), at |-> 0]}
  /\ clock = 0
  /\ req = [c \in Conn |-> Idle]
  /\ res = NoResponse
  /\ okReact = [i \in 1..MaxPosts |-> [likes |-> 0, dislikes |-> 0]]

NextReact ==
  \/ \E c \in Conn : React(c, Reactions, {1}, {FALSE})
  \/ \E c \in Conn : ReactSave(c, {FALSE})
  \/ \E c \in Conn : UpdatePost(c, Issued, {1}, {"u"}, {FALSE})
  \/ \E c \in Conn : UpdateSave(c, {FALSE})
  \/ \E c \in Conn : DeletePost(c, Issued, {1}, {FALSE})
  \/ \E c \in Conn : DeleteRemove(c, {FALSE})
  \/ \E c \in Conn : ListPosts(c, {FALSE})

SpecReact == InitReact /\ [][NextReact]_vars

----------------------------------------------------------------------------
(* Every route, from the empty database, with one username and one post    *)
(* id.  Connection c1 carries every kind of request; c2 carries the        *)
(* requests that make those of c1 fail when they overlap: a signup of the  *)
(* same username and a deletion of the post.  The event loop resumes a     *)
(* handler once the store operation it awaits has settled, with a result   *)
(* or with an error.                                                       *)

NextAll ==
  \/ \E c \in Conn : Signup(c, {"alice"}, {<<>>, <<"p">>}, {FALSE})
  \/ \E c \in Conn : SignupSave(c, BOOLEAN)
  \/ Login("c1", {"alice"}, {<<"p">>, PwA}, {FALSE})
  \/ CreatePost("c1", Headers, {"", "t"}, {FALSE})
  \/ UpdatePost("c1", Issued, {1}, {"", "u"}, {FALSE})
  \/ UpdateSave("c1", BOOLEAN)
  \/ \E c \in Conn : DeletePost(c, Issued, {1}, {FALSE})
  \/ \E c \in Conn : DeleteRemove(c, BOOLEAN)
  \/ React("c1", Reactions, {BadId, 1}, {FALSE})
  \/ ReactSave("c1", BOOLEAN)
  \/ ListPosts("c1", BOOLEAN)

SpecAll == Init /\ [][NextAll]_vars

Resume(c) ==
  \/ SignupSave(c, BOOLEAN)
  \/ UpdateSave(c, BOOLEAN)
  \/ DeleteRemove(c, BOOLEAN)
  \/ ReactSave(c, BOOLEAN)

SpecFair == SpecAll /\ \A c \in Conn : WF_vars(Resume(c))

----------------------------------------------------------------------------
(* Steps.  A step of a handler either answers a request that arrived in it *)
(* (no connection is left suspended, res' is the answer), suspends the     *)
(* request at its first await, or resumes a suspended request and answers. *)

Direct == req' = req /\ clock' = clock
Entered(c) == req[c].pc = "idle" /\ req'[c].pc # "idle"
Finished(c) == req[c].pc # "idle" /\ req'[c].pc = "idle"

Protected(a) == a.op \in {"create", "update", "delete"}
Guarded(a) == a.op \in {"update", "delete"}
Refusals == {"Unauthorized", "Forbidden"}   \* the bodies of sendStatus(401 | 403)
HourMs == ExpiresInSec * MsPerSec

\* the user documents stay as they are; new ones are appended
UsersKept == Len(users') >= Len(users) /\ \A i \in 1..Len(users) : users'[i] = users[i]

\* a signup with this username and password has been answered 201
SignedUp(username, password) ==
  \E i \in 1..Len(users) : users[i].username = username /\ plain[i] = password

----------------------------------------------------------------------------
(* C1 *)

\* C1, as stated: once a user with the username exists (an earlier signup was
\* answered 201), every signup with that username that the store serves is
\* answered 409 and leaves the User collection as it was.
C1_Original ==
  [][(Direct /\ res'.a.op = "signup" /\ FindUsers(res'.a.username) # {}
        /\ res'.body # "StoreError")
       => (res'.status = 409 /\ users' = users)]_vars

\* C1, amended: a signup is answered 201 only when no user has the username,
\* and then exactly one document is added; once a user with the username
\* exists, a signup with that username never reaches the insert, leaves the
\* collection as it was and, the store serving it, is answered 409 when its
\* password is non-empty and 400 when it is empty.
C1_SequentialSignup ==
  [][/\ UsersKept
     /\ (Direct /\ res'.a.op = "signup" /\ FindUsers(res'.a.username) # {})
          => /\ users' = users
             /\ res'.status # 201
             /\ res'.body # "StoreError"
                  => res'.status = (IF res'.a.password = <<>> THEN 400 ELSE 409)
     /\ \A c \in Conn :
          (Entered(c) /\ req'[c].a.op = "signup")
            => FindUsers(req'[c].a.username) = {}
     /\ \A c \in Conn :
          (Finished(c) /\ res'.a.op = "signup" /\ res'.status = 201)
            => /\ FindUsers(res'.a.username) = {}
               /\ Len(users') = Len(users) + 1
               /\ users'[Len(users')].username = res'.a.username]_vars

\* a signup was answered 409 for a username that is taken
C1_Witness ==
  res.a.op = "signup" /\ res.status = 409 /\ FindUsers(res.a.username) # {}

----------------------------------------------------------------------------
(* C2 *)

\* C2: in every reachable state no two User documents share a username,
\* however signups interleave between findOne and save.
C2_UniqueUsernames ==
  \A i, j \in 1..Len(users) : users[i].username = users[j].username => i = j

\* two signups for one username both passed findOne; the second save was refused
C2_Witness ==
  /\ res.a.op = "signup" /\ res.body = "E11000 duplicate key"
  /\ FindUsers(res.a.username) # {}

----------------------------------------------------------------------------
(* C3 *)

\* the token is valid, the post exists and belongs to somebody else
NotOwner(a) ==
  /\ AuthStatus(a.hdr) = 0
  /\ Exists(a.id)
  /\ posts[a.id].user # TokenOf(a.hdr).userId

\* C3: a PUT or DELETE on an existing post with a valid token of another
\* user is answered 403 at once (the store serving it), and the Post
\* collection is left as it was.
C3_NonOwnerForbidden ==
  [][/\ (Direct /\ Guarded(res'.a) /\ NotOwner(res'.a) /\ res'.body # "StoreError")
          => (res'.status = 403 /\ res'.body = "Unauthorized action" /\ posts' = posts)
     /\ \A c \in Conn :
          (Entered(c) /\ Guarded(req'[c].a)) => ~NotOwner(req'[c].a)]_vars

\* bob's DELETE of alice's post was answered 403 and the post is still there
C3_Witness ==
  /\ res.a.op = "delete" /\ res.status = 403 /\ res.body = "Unauthorized action"
  /\ Exists(res.a.id) /\ posts[res.a.id].user # TokenOf(res.a.hdr).userId

----------------------------------------------------------------------------
(* C4 *)

\* the token is valid, the post exists and belongs to the caller
IsOwner(a) ==
  /\ AuthStatus(a.hdr) = 0
  /\ Exists(a.id)
  /\ posts[a.id].user = TokenOf(a.hdr).userId

\* C4, as stated: the owner's PUT or DELETE of an existing post passes the
\* guards and, the store serving it, is answered 200 whatever the title and
\* content and whatever runs concurrently.
C4_Original ==
  [][/\ (Direct /\ Guarded(res'.a) /\ IsOwner(res'.a)) => res'.body = "StoreError"
     /\ \A c \in Conn :
          (Finished(c) /\ Guarded(req[c].a) /\ res'.body # "StoreError")
            => res'.status = 200]_vars

\* C4, amended: the owner's PUT or DELETE of an existing post passes the
\* guards; the store serving it, the DELETE is always answered 200 and the
\* post is gone, and the PUT is answered 200 when title and content are both
\* non-empty and the post is still there at the save, and 500 otherwise
\* (ValidationError, or DocumentNotFoundError after a concurrent delete).
C4_OwnerSucceeds ==
  [][/\ (Direct /\ Guarded(res'.a) /\ IsOwner(res'.a)) => res'.body = "StoreError"
     /\ \A c \in Conn :
          (Finished(c) /\ Guarded(req[c].a) /\ res'.body # "StoreError")
            => /\ res'.a = req[c].a
               /\ res'.a.op = "delete"
                    => (res'.status = 200 /\ res'.a.id \notin DOMAIN posts')
               /\ res'.a.op = "update"
                    => res'.status =
                         (IF ValidPost(res'.a.title, res'.a.content) /\ Exists(res'.a.id)
                          THEN 200 ELSE 500)]_vars

\* the owner's PUT was answered 200 and the post carries the new title
C4_Witness ==
  /\ res.a.op = "update" /\ res.status = 200
  /\ Exists(res.a.id) /\ posts[res.a.id].title = res.a.title
  /\ posts[res.a.id].user = TokenOf(res.a.hdr).userId

----------------------------------------------------------------------------
(* C5 *)

\* the token check let the request through
Passed == ~(Direct /\ res'.body \in Refusals)

\* C5, as stated: a token issued at time t passes the check on every
\* protected request made before t + 1 hour and is refused on every one made
\* after t + 1 hour.
C5_Original ==
  [][\A e \in tokens :
       /\ (Direct /\ Protected(res'.a) /\ res'.a.hdr = <<"Bearer", e.jwt>>)
            => /\ clock < e.at + HourMs => Passed
               /\ clock > e.at + HourMs => (res'.status = 403 /\ res'.body = "Forbidden")
       /\ \A c \in Conn :
            (Entered(c) /\ req'[c].a.hdr = <<"Bearer", e.jwt>>)
              => clock <= e.at + HourMs]_vars

\* C5, amended: a token issued at time t (in ms) passes the check on every
\* protected request made while the clock's whole second is before
\* floor(t / 1000) + 3600, and is refused with 403 on every request from that
\* second on: it may be refused up to a second before t + 1 hour, and is
\* always refused at and after t + 1 hour, whatever was accepted before.
C5_TokenLifetime ==
  [][\A e \in tokens :
       /\ (Direct /\ Protected(res'.a) /\ res'.a.hdr = <<"Bearer", e.jwt>>)
            => IF clock \div MsPerSec < (e.at \div MsPerSec) + ExpiresInSec
               THEN Passed
               ELSE res'.status = 403 /\ res'.body = "Forbidden"
       /\ \A c \in Conn :
            (Entered(c) /\ req'[c].a.hdr = <<"Bearer", e.jwt>>)
              => clock \div MsPerSec < (e.at \div MsPerSec) + ExpiresInSec]_vars

\* a token that login issued less than an hour ago was refused
C5_Witness ==
  \E e \in tokens :
    /\ Protected(res.a) /\ res.a.hdr = <<"Bearer", e.jwt>>
    /\ res.status = 403 /\ res.body = "Forbidden"
    /\ clock < e.at + HourMs

----------------------------------------------------------------------------
(* C6 *)

\* C6: on POST /posts, PUT /posts/:id and DELETE /posts/:id a request
\* without a token is answered 401, and one whose token is malformed, wrongly
\* signed or expired is answered 403, by the middleware itself: the handler
\* is not entered and both collections are left as they were.
C6_TokenCheckRefuses ==
  [][/\ (Direct /\ Protected(res'.a))
          => LET t == TokenOf(res'.a.hdr) IN
             /\ t = NoToken
                  => /\ res'.status = 401 /\ res'.body = "Unauthorized"
                     /\ UNCHANGED <<users, posts>>
             /\ (t # NoToken /\ (t.sig # Secret \/ NowSec >= t.exp))
                  => /\ res'.status = 403 /\ res'.body = "Forbidden"
                     /\ UNCHANGED <<users, posts>>
     /\ \A c \in Conn :
          (Entered(c) /\ Protected(req'[c].a))
            => LET t == TokenOf(req'[c].a.hdr) IN t.sig = Secret /\ NowSec < t.exp]_vars

\* a re-signed token was refused on a protected route
C6_Witness ==
  /\ Protected(res.a) /\ TokenOf(res.a.hdr).sig = "attacker"
  /\ res.status = 403 /\ res.body = "Forbidden"

----------------------------------------------------------------------------
(* C7 *)

\* C7: the store serving it, a login is answered 400 when username or
\* password is empty; otherwise 404 when no user has the username; otherwise
\* 401 when the password does not verify against the stored hash; otherwise
\* 200 with a token carrying the _id and username of the user found. No
\* other answer carries a token.
C7_LoginPrecedence ==
  [][(Direct /\ res'.a.op = "login" /\ res'.body # "StoreError")
       => LET a == res'.a IN
          /\ res'.status =
               (IF a.username = "" \/ a.password = <<>> THEN 400
                ELSE IF FindUsers(a.username) = {} THEN 404
                ELSE IF ~BcryptCompare(a.password, FindOne(a.username).password) THEN 401
                ELSE 200)
          /\ res'.status = 200
               => /\ res'.token.userId = FindOne(a.username)._id
                  /\ res'.token.username = FindOne(a.username).username
                  /\ res'.token.sig = Secret
          /\ res'.status # 200 => res'.token = NoToken]_vars

\* a login for an existing user with a wrong password was answered 401
C7_Witness ==
  /\ res.a.op = "login" /\ res.status = 401
  /\ FindUsers(res.a.username) # {}
  /\ ~SignedUp(res.a.username, res.a.password)

----------------------------------------------------------------------------
(* C8 *)

\* C8: once signup(username, password) has been answered 201, every login
\* with that username and password which the store serves is answered 200
\* with a token, whatever happened in between.
C8_LoginAfterSignup ==
  [][(Direct /\ res'.a.op = "login" /\ res'.body # "StoreError"
        /\ SignedUp(res'.a.username, res'.a.password))
       => (res'.status = 200 /\ res'.token # NoToken
           /\ res'.token.username = res'.a.username)]_vars

\* a login with the credentials of an earlier signup was answered 200
C8_Witness ==
  /\ res.a.op = "login" /\ res.status = 200 /\ res.token # NoToken
  /\ SignedUp(res.a.username, res.a.password)

----------------------------------------------------------------------------
(* C9 *)

\* C9: for a stored user, a login that the store serves is answered with a
\* token if and only if its password is the one given at that user's signup.
C9_OnlyTheSignupPassword ==
  [][(Direct /\ res'.a.op = "login" /\ res'.body # "StoreError"
        /\ FindUsers(res'.a.username) # {})
       => (res'.status = 200 <=> SignedUp(res'.a.username, res'.a.password))]_vars

----------------------------------------------------------------------------
(* C10 *)

\* C10: with the requests served one after the other, a like or dislike that
\* the store serves is answered 200 and raises its counter by exactly one
\* when the post exists, and is answered 404 and changes no post when no
\* post has the id.
C10_SequentialReactions ==
  [][/\ (Direct /\ res'.a.op \in Reactions /\ res'.body # "StoreError")
          => (~Exists(res'.a.id) /\ res'.status = 404 /\ posts' = posts)
     /\ \A c \in Conn :
          (Finished(c) /\ req[c].a.op \in Reactions /\ res'.body # "StoreError")
            => /\ res'.status = 200
               /\ posts' = [posts EXCEPT ![req[c].a.id] = Incremented(req[c].a, @, @)]]_vars

----------------------------------------------------------------------------
(* C11 *)

\* the request of connection c, a like or dislike (field) of post i, is
\* answered 200 in this step by its save
StaleSave(c, i, field) ==
  /\ Finished(c)
  /\ req[c].a.op \in Reactions
  /\ req[c].a.op = field
  /\ req[c].a.id = i
  /\ res'.status = 200

\* C11 as stated: the counters of a post are non-negative and never decrease
\* from one state to the next while the post exists.
C11_Original ==
  [][\A i \in DOMAIN posts \cap DOMAIN posts' :
       /\ posts'[i].likes >= 0 /\ posts'[i].dislikes >= 0
       /\ posts'[i].likes >= posts[i].likes
       /\ posts'[i].dislikes >= posts[i].dislikes]_vars

\* C11: the counters of a post are non-negative in every state; a counter
\* decreases only by the save of a like (dislike) that loaded the post
\* before other likes (dislikes) were saved, and that save sets it to one
\* more than the loaded value; no update lowers a counter.
C11_StaleSaveLowers ==
  [][\A i \in DOMAIN posts \cap DOMAIN posts' :
       /\ posts'[i].likes >= 0 /\ posts'[i].dislikes >= 0
       /\ posts'[i].likes < posts[i].likes
            => \E c \in Conn : /\ StaleSave(c, i, "like")
                               /\ req[c].doc.likes + 1 < posts[i].likes
                               /\ posts'[i].likes = req[c].doc.likes + 1
       /\ posts'[i].dislikes < posts[i].dislikes
            => \E c \in Conn : /\ StaleSave(c, i, "dislike")
                               /\ req[c].doc.dislikes + 1 < posts[i].dislikes
                               /\ posts'[i].dislikes = req[c].doc.dislikes + 1]_vars

\* three likes were answered 200 and the counter is 1: the third save
\* lowered it from 2
C11_Witness ==
  \E i \in DOMAIN posts : posts[i].likes = 1 /\ okReact[i].likes = 3

----------------------------------------------------------------------------
(* C12 *)

\* C12: in every state the likes (dislikes) counter of a post is at most the
\* number of like (dislike) requests on it that were answered 200; two
\* overlapping likes can both be answered 200 and raise the counter by one
\* only (C12_Witness).
C12_CounterAtMostAnswered ==
  \A i \in DOMAIN posts :
    /\ posts[i].likes <= okReact[i].likes
    /\ posts[i].dislikes <= okReact[i].dislikes

\* both requests have been answered 200 and the counter is 1
C12_Witness ==
  \E i \in DOMAIN posts :
    /\ okReact[i].likes = 2
    /\ posts[i].likes = 1
    /\ \A c \in Conn : req[c].pc = "idle"

----------------------------------------------------------------------------
(* C13 *)

\* post ids are handed out in order and never again: an id below nextPostId
\* that the store does not hold is the id of a deleted post
Gone(i) == i >= 1 /\ i < nextPostId /\ i \notin DOMAIN posts

\* C13: a DELETE answered 200 leaves the store without the post; a post that
\* is gone stays gone in every later state, whichever like, dislike or
\* update saves afterwards; and every GET /posts answers with exactly the
\* posts the store holds, so no later list shows a deleted post.
C13_DeletedStaysDeleted ==
  [][/\ \A c \in Conn :
          (Finished(c) /\ req[c].a.op = "delete" /\ res'.status = 200)
            => req[c].a.id \notin DOMAIN posts'
     /\ \A i \in PostIds : Gone(i) => i \notin DOMAIN posts'
     /\ (Direct /\ res'.a.op = "list" /\ res'.status = 200)
          => /\ DOMAIN res'.list = DOMAIN posts
             /\ \A i \in PostIds : Gone(i) => i \notin DOMAIN res'.list]_vars

\* a like that loaded post 1 before its deletion has saved after it
C13_Witness ==
  /\ Gone(1)
  /\ res.a.op = "like" /\ res.a.id = 1
  /\ res.body = "DocumentNotFoundError"

----------------------------------------------------------------------------
(* C14 *)

\* the token is one a login issued, carries the server's signature and has
\* not expired
Verified(t) == t \in Jwts /\ t.sig = Secret /\ NowSec < t.exp

\* C14: a post enters the store only in the step that answers a POST /posts
\* 201, whose token is a verified one; the new post is owned by the userId
\* of that token and has likes = 0 and dislikes = 0; and the owner of every
\* post in the store is the _id of a user document in the store.
C14_PostsComeFromVerifiedCreate ==
  [][/\ \A i \in DOMAIN posts' \ DOMAIN posts :
          /\ Direct
          /\ res'.a.op = "create" /\ res'.status = 201
          /\ Verified(TokenOf(res'.a.hdr))
          /\ posts'[i].user = TokenOf(res'.a.hdr).userId
          /\ posts'[i].likes = 0 /\ posts'[i].dislikes = 0
     /\ \A i \in DOMAIN posts' :
          \E k \in 1..Len(users') : users'[k]._id = posts'[i].user]_vars

\* a post has just been created
C14_Witness ==
  /\ res.a.op = "create" /\ res.status = 201
  /\ \E i \in DOMAIN posts : posts[i].user = TokenOf(res.a.hdr).userId

----------------------------------------------------------------------------
(* C15 *)

\* C15: a PUT or DELETE of a post is checked in the order token, existence,
\* ownership: without a valid token it is answered 401 or 403 whether or not
\* the post exists; with a valid token and no post of that id it is answered
\* 404; and it is answered 403 'Unauthorized action' only when the post
\* exists and belongs to another user.
C15_GuardOrder ==
  [][(Direct /\ Guarded(res'.a) /\ res'.body # "StoreError")
       => /\ AuthStatus(res'.a.hdr) # 0
               => (res'.status = AuthStatus(res'.a.hdr) /\ res'.body \in Refusals)
          /\ (AuthStatus(res'.a.hdr) = 0 /\ ~Exists(res'.a.id))
               => res'.status = 404
          /\ (res'.status = 403 /\ res'.body = "Unauthorized action")
               => /\ Exists(res'.a.id)
                  /\ posts[res'.a.id].user # TokenOf(res'.a.hdr).userId]_vars

----------------------------------------------------------------------------
(* C16 *)

\* C16: the owner of a post never changes; an update answered 200 changes
\* nothing but the title and content of its post, a like answered 200
\* nothing but the likes of its post, a dislike answered 200 nothing but the
\* dislikes of its post; and no user document changes.
C16_Frame ==
  [][/\ \A i \in DOMAIN posts \cap DOMAIN posts' : posts'[i].user = posts[i].user
     /\ \A c \in Conn :
          (Finished(c) /\ res'.status = 200 /\ req[c].a.op \in {"update"} \cup Reactions)
            => LET i == req[c].a.id IN
               /\ users' = users
               /\ i \in DOMAIN posts /\ DOMAIN posts' = DOMAIN posts
               /\ req[c].a.op = "update"
                    => posts' = [posts EXCEPT ![i].title = posts'[i].title,
                                              ![i].content = posts'[i].content]
               /\ req[c].a.op = "like"
                    => posts' = [posts EXCEPT ![i].likes = posts'[i].likes]
               /\ req[c].a.op = "dislike"
                    => posts' = [posts EXCEPT ![i].dislikes = posts'[i].dislikes]]_vars

\* an update has been answered 200 on a post that carries likes and dislikes
C16_Witness ==
  /\ res.a.op = "update" /\ res.status = 200
  /\ Exists(res.a.id)
  /\ posts[res.a.id].title = res.a.title
  /\ posts[res.a.id].likes > 0 /\ posts[res.a.id].dislikes > 0

----------------------------------------------------------------------------
(* C17 *)

\* C17: the password field of every user document is the bcrypt hash of the
\* password given at signup (a hash value, which is no password: passwords
\* are lists of characters); the token a login
\* answers with carries no password field; and each post in the answer of
\* GET /posts shows of its owner the _id and the username only.
C17_NoPasswordStoredOrSent ==
  /\ Len(plain) = Len(users)
  /\ \A k \in 1..Len(users) :
       /\ users[k].password = BcryptHash(plain[k])
       /\ users[k].password.alg = "bcrypt"
  /\ "password" \notin DOMAIN res.token
  /\ \A i \in DOMAIN res.list :
       /\ DOMAIN res.list[i].user = {"_id", "username"}
       /\ \E k \in 1..Len(users) :
            /\ users[k]._id = res.list[i].user._id
            /\ users[k].username = res.list[i].user.username

\* GET /posts has answered with a post of a user who signed up
C17_Witness ==
  /\ res.a.op = "list" /\ res.status = 200
  /\ \E i \in DOMAIN res.list : res.list[i].user.username = "alice"
  /\ \E k \in 1..Len(users) : plain[k] = <<"p">>

----------------------------------------------------------------------------
(* C18 *)

Failures == {400, 401, 403, 404, 409, 500}
Writers == {"signup", "login", "create", "update", "delete", "like", "dislike"}

\* C18: a request of the seven routes that is answered with a failure status
\* has written nothing: the step that answers it leaves the User and Post
\* collections as they are, and so does the step in which the handler
\* suspended on its first store operation.
C18_FailureWritesNothing ==
  [][/\ (Direct /\ res'.a.op \in Writers /\ res'.status \in Failures)
          => (users' = users /\ posts' = posts)
     /\ \A c \in Conn :
          /\ (Finished(c) /\ req[c].a.op \in Writers /\ res'.status \in Failures)
               => (users' = users /\ posts' = posts)
          /\ Entered(c) => (users' = users /\ posts' = posts)]_vars

\* an update of an existing post has been answered 500 by the validator
C18_Witness ==
  /\ res.a.op = "update" /\ res.status = 500 /\ res.body = "ValidationError"
  /\ Exists(res.a.id)
  /\ posts[res.a.id].title # res.a.title

----------------------------------------------------------------------------
(* C19 *)

\* a request is answered in this step
Answered == Direct \/ \E c \in Conn : Finished(c)

\* the token check lets the request of this step through with this header
Accepted(hdr) ==
  \/ Direct /\ Protected(res'.a) /\ res'.a.hdr = hdr /\ res'.body \notin Refusals
  \/ \E c \in Conn : Entered(c) /\ Protected(req'[c].a) /\ req'[c].a.hdr = hdr

\* C19: a token is issued only in the step that answers 200 to a login whose
\* password verifies against the stored hash of the named user, and it
\* carries that user's _id and username; every token the token check
\* accepts is one such a login issued less than an hour before, and the
\* identity it carries is that of a user document in the store.
C19_TokenProvenance ==
  [][/\ (tokens' # tokens \/ (Answered /\ res'.token # NoToken))
          => /\ Direct
             /\ res'.a.op = "login" /\ res'.status = 200
             /\ FindUsers(res'.a.username) # {}
             /\ BcryptCompare(res'.a.password, FindOne(res'.a.username).password)
             /\ res'.token.userId = FindOne(res'.a.username)._id
             /\ res'.token.username = res'.a.username
             /\ tokens' = tokens \cup {[jwt |-> res'.token, at |-> clock]}
     /\ \A hdr \in Headers :
          Accepted(hdr)
            => /\ \E e \in tokens :
                    /\ e.jwt = TokenOf(hdr)
                    /\ e.at <= clock /\ clock < e.at + HourMs
               /\ \E k \in 1..Len(users) :
                    /\ users[k]._id = TokenOf(hdr).userId
                    /\ users[k].username = TokenOf(hdr).username]_vars

\* a token issued by a login has been accepted on a later request, after a
\* login with another password was answered 401
C19_Witness ==
  /\ res.a.op = "create" /\ res.status = 201
  /\ \E e \in tokens : e.jwt = TokenOf(res.a.hdr) /\ e.at < clock

----------------------------------------------------------------------------
(* C20 *)

Statuses == {200, 201} \cup Failures

\* C20: every request is answered once.  A step answers the request it
\* handles with one status, at once or when it finishes a suspended handler;
\* a handler that suspends sends nothing in that step, and is entered on a
\* protected route only when the token check passed, which otherwise answers
\* 401 or 403 itself; and every suspended request is eventually answered,
\* also when its store operation throws.
C20_AnsweredOnce ==
  /\ [][/\ Direct => res'.status \in Statuses
        /\ (Direct /\ Protected(res'.a) /\ AuthStatus(res'.a.hdr) # 0)
             => (res'.status = AuthStatus(res'.a.hdr) /\ res'.body \in Refusals)
        /\ \A c \in Conn :
             /\ Entered(c)
                  => /\ res' = res
                     /\ Protected(req'[c].a) => AuthStatus(req'[c].a.hdr) = 0
             /\ Finished(c)
                  => /\ res'.a = req[c].a
                     /\ res'.status \in Statuses]_vars
  /\ \A c \in Conn : (req[c].pc # "idle") ~> (req[c].pc = "idle")

\* a like whose save threw has been answered 500 and no request is pending
C20_Witness ==
  /\ res.a.op = "like" /\ res.status = 500 /\ res.body = "StoreError"
  /\ \A c \in Conn : req[c].pc = "idle"

====
